---- MODULE Spec2Model ----
(***************************************************************************)
(* A model of src/todo.py, the command-line to-do list.                    *)
(*                                                                         *)
(* A Python str is a sequence of symbols.  A symbol is one space, one      *)
(* decimal digit, one sign, or an opaque run of other (encodable,          *)
(* non-whitespace) characters such as "Work" or "--high".                  *)
(*                                                                         *)
(* The backing file is held as the JSON value tree its text denotes, next  *)
(* to the ways the text can fail to denote one (absent, undecodable bytes, *)
(* invalid JSON).  The disk says which file operations raise OSError.      *)
(***************************************************************************)
EXTENDS Integers, Sequences, FiniteSets, TLC

VARIABLES
    file,     \* contents of TASKS_FILE
    disk,     \* the I/O condition of TASKS_FILE
    op,       \* the operation that ran last
    argv,     \* its argv (main), or <<>>
    pre,      \* the list load_tasks returned to it
    tasks,    \* the in-memory list when it ended
    msg,      \* the last message it printed
    loads,    \* how many times it called load_tasks
    saves,    \* how many times it called save_tasks
    written,  \* the list it handed to save_tasks
    raised    \* whether an exception escaped it

vars == <<file, disk, op, argv, pre, tasks, msg, loads, saves, written, raised>>

\* The longest list the add commands build (a backing file may hold more).
MaxTasks == 2

-----------------------------------------------------------------------------
(* str helpers *)

W(w) == <<w>>

Digits == {"0", "1", "2", "3", "4", "5", "6", "7", "8", "9"}

DigitVal(c) ==
    CASE c = "0" -> 0 [] c = "1" -> 1 [] c = "2" -> 2 [] c = "3" -> 3
      [] c = "4" -> 4 [] c = "5" -> 5 [] c = "6" -> 6 [] c = "7" -> 7
      [] c = "8" -> 8 [] c = "9" -> 9

RECURSIVE lstrip(_)
lstrip(s) == IF s # <<>> /\ s[1] = " " THEN lstrip(Tail(s)) ELSE s

RECURSIVE rstrip(_)
rstrip(s) ==
    IF s # <<>> /\ s[Len(s)] = " " THEN rstrip(SubSeq(s, 1, Len(s) - 1)) ELSE s

\* str.strip()
strip(s) == rstrip(lstrip(s))

\* " ".join(parts)
RECURSIVE join(_)
join(parts) ==
    IF parts = <<>> THEN <<>>
    ELSE IF Len(parts) = 1 THEN parts[1]
    ELSE parts[1] \o <<" ">> \o join(Tail(parts))

RECURSIVE DecVal(_)
DecVal(ds) ==
    IF ds = <<>> THEN 0
    ELSE 10 * DecVal(SubSeq(ds, 1, Len(ds) - 1)) + DigitVal(ds[Len(ds)])

\* int(num_str): surrounding whitespace, an optional sign, one or more digits;
\* everything else is a ValueError.
int(num_str) ==
    LET trimmed == strip(num_str)
        signed  == trimmed # <<>> /\ trimmed[1] \in {"+", "-"}
        ds      == IF signed THEN Tail(trimmed) ELSE trimmed
        ok      == ds # <<>> /\ \A i \in 1..Len(ds) : ds[i] \in Digits
    IN  [ok  |-> ok,
         num |-> IF ~ok THEN 0
                 ELSE IF signed /\ trimmed[1] = "-" THEN 0 - DecVal(ds)
                 ELSE DecVal(ds)]

-----------------------------------------------------------------------------
(* JSON values, tasks, file contents *)

\* A JSON value: its type t, its text s (str, num) or its truth value b (bool).
\* Record fields are written in the order TLC keeps them in.
JAbsent  == [s |-> <<>>, t |-> "absent", b |-> FALSE]   \* the key is not there
JStr(s)  == [s |-> s, t |-> "str", b |-> FALSE]
JBool(b) == [s |-> <<>>, t |-> "bool", b |-> b]
JNum(s)  == [s |-> s, t |-> "num", b |-> FALSE]

\* An element of the top-level list: a JSON object with the four keys of
\* interest (each possibly absent), or something that is not an object.
Obj(title, done, priority, category) ==
    [title |-> title, done |-> done, priority |-> priority,
     category |-> category, dict |-> TRUE]

NotObj ==
    [title |-> JAbsent, done |-> JAbsent, priority |-> JAbsent,
     category |-> JAbsent, dict |-> FALSE]

\* dataclass Task
Task(title, done, priority, category) ==
    [title |-> title, done |-> done, priority |-> priority, category |-> category]

FileOf(kind, items) == [kind |-> kind, items |-> items]

F_absent  == FileOf("absent", <<>>)
F_badenc  == FileOf("badenc", <<>>)     \* bytes that are not UTF-8
F_badjson == FileOf("badjson", <<>>)    \* text that is not JSON (also: empty)
F_notlist == FileOf("value", <<>>)      \* valid JSON, not a list

\* dict.get(key, default)
get(v, default) == IF v.t = "absent" THEN default ELSE v

-----------------------------------------------------------------------------
(* Storage *)

\* json.loads(read_text()) of a saved list gives back the list of dicts that
\* json.dumps was given: the file holds that list.

\* Variant: a record without a done key is skipped.
keeps_needs_done(item) ==
    /\ item.dict
    /\ item.title.t = "str"
    /\ item.done.t = "bool"

\* isinstance(item, dict), isinstance(title, str), isinstance(done, bool)
keeps(item) ==
    /\ item.dict
    /\ item.title.t = "str"
    /\ get(item.done, JBool(FALSE)).t = "bool"

\* Task(title=title, done=done, priority=priority, category=category)
task_of(item) ==
    Task(item.title.s,
         get(item.done, JBool(FALSE)).b,
         get(item.priority, JStr(W("normal"))),
         get(item.category, JStr(W("None"))))

RECURSIVE load_items(_)
load_items(raw) ==
    IF raw = <<>> THEN <<>>
    ELSE (IF keeps(raw[1]) THEN <<task_of(raw[1])>> ELSE <<>>)
             \o load_items(Tail(raw))

Loaded(exc, ts) == [tasks |-> ts, raised |-> exc]

\* Whether reading the file raises OSError.
ReadFails(d) == d \in {"noaccess", "writeonly"}

load_tasks(f, d) ==
    IF f.kind = "absent" THEN Loaded(FALSE, <<>>)
    ELSE IF ReadFails(d) THEN Loaded(FALSE, <<>>)          \* except OSError
    ELSE IF f.kind = "badenc" THEN Loaded(TRUE, <<>>)      \* UnicodeDecodeError: no handler
    ELSE IF f.kind = "badjson" THEN Loaded(FALSE, <<>>)    \* except JSONDecodeError
    ELSE IF f.kind # "list" THEN Loaded(FALSE, <<>>)
    ELSE Loaded(FALSE, load_items(f.items))

\* Variant: the category is not serialized.
asdict_without_category(t) == Obj(JStr(t.title), JBool(t.done), t.priority, JAbsent)

\* dataclasses.asdict(t)
asdict(t) == Obj(JStr(t.title), JBool(t.done), t.priority, t.category)

serialized(ts) == [i \in 1..Len(ts) |-> asdict(ts[i])]

\* The file after save_tasks(ts).  write_text opens the file for writing, which
\* empties it, and then writes; OSError from either step is swallowed.
save_tasks(f, d, ts) ==
    CASE d \in {"ok", "writeonly"}      -> FileOf("list", serialized(ts))
      [] d = "full"                     -> F_badjson   \* emptied, nothing written
      [] d \in {"readonly", "noaccess"} -> f           \* could not be opened

-----------------------------------------------------------------------------
(* Messages: the text printed, with the number n and the string s it
   interpolates *)

Msg(text)     == [s |-> <<>>, text |-> text, n |-> 0]
MsgN(text, n) == [s |-> <<>>, text |-> text, n |-> n]
MsgS(text, s) == [s |-> s, text |-> text, n |-> 0]
MsgNS(text, n, s) == [s |-> s, text |-> text, n |-> n]

NoMsg == Msg("")

M_AllCaughtUp  == "No tasks. You're all caught up!"
M_Listing      == "{idx}. [{status}] {priority_marker}{title} :: {category}"
M_EmptyTask    == "Cannot add an empty task."
M_Added        == "Added: {title}"
M_InvalidNum   == "Please provide a valid task number."
M_NoTasksYet   == "There are no tasks yet."
M_Between      == "Task number must be between 1 and {n}."
M_NoneToDone   == "No tasks to mark as done."
M_MarkedDone   == "Marked as done: {title}"
M_NoneToDelete == "No tasks to delete."
M_Deleted      == "Deleted: {title}"
M_NoneToUpdate == "No tasks to update."
M_NoPending    == "No pending tasks found in category {category}."
M_MarkedCat    == "Marked {n} task(s) as done in category {category}."
M_NoneToClear  == "No tasks to clear."
M_NoCompleted  == "There are no completed tasks to clear."
M_Cleared      == "Cleared {n} completed task(s)."
M_Usage        == "Usage:"
M_MissingName  == "Missing task name. Example: todo.py add Buy milk"
M_MissingCat   == "Missing category or task name. Example: todo.py add-category Work Buy milk"
M_MissingNum   == "Missing task number. Example: todo.py done 1"
M_MissingDCat  == "Missing category. Example: todo.py done-category Work"
M_MissingDel   == "Missing task number. Example: todo.py delete 1"
M_Unknown      == "Unknown command: {command}"

-----------------------------------------------------------------------------
(* Command handlers.  Each gives the list as the handler leaves it, how often
   it called save_tasks and with which list, and the last message printed. *)

R(ts, nsave, wr, m) == [tasks |-> ts, msg |-> m, written |-> wr, nsave |-> nsave]

cmd_list(ts) ==
    IF ts = <<>> THEN R(ts, 0, <<>>, Msg(M_AllCaughtUp))
    ELSE R(ts, 0, <<>>, MsgN(M_Listing, Len(ts)))

\* Variant: the title is not checked for being blank.
cmd_add_unchecked(ts, title, priority, category) ==
    LET new == Append(ts, Task(strip(title), FALSE, JStr(priority), JStr(category)))
    IN  R(new, 1, new, MsgS(M_Added, strip(title)))

cmd_add(ts, title, priority, category) ==
    IF strip(title) = <<>> THEN R(ts, 0, <<>>, Msg(M_EmptyTask))
    ELSE LET new == Append(ts, Task(strip(title), FALSE, JStr(priority), JStr(category)))
         IN  R(new, 1, new, MsgS(M_Added, strip(title)))

\* What _index_from_user gives: the zero-based index, or None (ok is FALSE)
\* after printing msg.
Index(ok, idx, m) == [msg |-> m, ok |-> ok, idx |-> idx]

\* Variant: the upper end of the range is excluded.
index_from_user_exclusive(ts, num_str) ==
    LET p == int(num_str)
    IN  IF ~p.ok THEN Index(FALSE, 0, Msg(M_InvalidNum))
        ELSE IF p.num < 1 \/ p.num >= Len(ts)
             THEN Index(FALSE, 0, IF ts = <<>> THEN Msg(M_NoTasksYet)
                                  ELSE MsgN(M_Between, Len(ts)))
        ELSE Index(TRUE, p.num - 1, NoMsg)

index_from_user(ts, num_str) ==
    LET p == int(num_str)
    IN  IF ~p.ok THEN Index(FALSE, 0, Msg(M_InvalidNum))
        ELSE IF p.num < 1 \/ p.num > Len(ts)
             THEN Index(FALSE, 0, IF ts = <<>> THEN Msg(M_NoTasksYet)
                                  ELSE MsgN(M_Between, Len(ts)))
        ELSE Index(TRUE, p.num - 1, NoMsg)

\* Variant: no check for the empty list before the index is validated.
cmd_done_unguarded(ts, num_str) ==
    LET i == index_from_user(ts, num_str)
    IN  IF ~i.ok THEN R(ts, 0, <<>>, i.msg)
        ELSE LET new == [ts EXCEPT ![i.idx + 1].done = TRUE]
             IN  R(new, 1, new, MsgS(M_MarkedDone, new[i.idx + 1].title))

cmd_done(ts, num_str) ==
    IF ts = <<>> THEN R(ts, 0, <<>>, Msg(M_NoneToDone))
    ELSE LET i == index_from_user(ts, num_str)
         IN  IF ~i.ok THEN R(ts, 0, <<>>, i.msg)
             ELSE LET new == [ts EXCEPT ![i.idx + 1].done = TRUE]
                  IN  R(new, 1, new, MsgS(M_MarkedDone, new[i.idx + 1].title))

\* Variant: removes the element after idx.
pop_next(ts, idx) == SubSeq(ts, 1, idx + 1) \o SubSeq(ts, idx + 3, Len(ts))

\* list.pop(idx), idx zero-based
pop(ts, idx) == SubSeq(ts, 1, idx) \o SubSeq(ts, idx + 2, Len(ts))

cmd_delete(ts, num_str) ==
    IF ts = <<>> THEN R(ts, 0, <<>>, Msg(M_NoneToDelete))
    ELSE LET i == index_from_user(ts, num_str)
         IN  IF ~i.ok THEN R(ts, 0, <<>>, i.msg)
             ELSE LET new == pop(ts, i.idx)
                  IN  R(new, 1, new, MsgS(M_Deleted, ts[i.idx + 1].title))

\* Variant: tasks already done count as well.
pending_in_any(t, category) == t.category = JStr(category)

\* task.category == category and not task.done
pending_in(t, category) == t.category = JStr(category) /\ ~t.done

\* Variant: saves also when nothing was updated.
cmd_done_category_saves(ts, category) ==
    LET new == [i \in 1..Len(ts) |->
                   IF pending_in(ts[i], category)
                   THEN [ts[i] EXCEPT !.done = TRUE] ELSE ts[i]]
        updated_count == Cardinality({i \in 1..Len(ts) : pending_in(ts[i], category)})
    IN  R(new, 1, new, MsgNS(M_MarkedCat, updated_count, category))

cmd_done_category(ts, category) ==
    IF ts = <<>> THEN R(ts, 0, <<>>, Msg(M_NoneToUpdate))
    ELSE LET new == [i \in 1..Len(ts) |->
                        IF pending_in(ts[i], category)
                        THEN [ts[i] EXCEPT !.done = TRUE] ELSE ts[i]]
             updated_count == Cardinality({i \in 1..Len(ts) : pending_in(ts[i], category)})
         IN  IF updated_count = 0 THEN R(new, 0, <<>>, MsgS(M_NoPending, category))
             ELSE R(new, 1, new, MsgNS(M_MarkedCat, updated_count, category))

\* Variant: only the first done task is dropped.
RECURSIVE not_done_first(_)
not_done_first(ts) ==
    IF ts = <<>> THEN <<>>
    ELSE IF ts[1].done THEN Tail(ts)
    ELSE <<ts[1]>> \o not_done_first(Tail(ts))

\* [t for t in tasks if not t.done]
RECURSIVE not_done(_)
not_done(ts) ==
    IF ts = <<>> THEN <<>>
    ELSE (IF ts[1].done THEN <<>> ELSE <<ts[1]>>) \o not_done(Tail(ts))

cmd_clear_completed(ts) ==
    IF ts = <<>> THEN R(ts, 0, <<>>, Msg(M_NoneToClear))
    ELSE LET remaining == not_done(ts)
             cleared_count == Len(ts) - Len(remaining)
         IN  IF cleared_count = 0 THEN R(ts, 0, <<>>, Msg(M_NoCompleted))
             ELSE R(remaining, 1, remaining, MsgN(M_Cleared, cleared_count))

-----------------------------------------------------------------------------
(* The argv router *)

Arg(av, i)  == av[i + 1]                    \* argv[i]
From(av, i) == SubSeq(av, i + 1, Len(av))   \* argv[i:]

\* *title_parts, last_part = rest, and the trailing --high / --low flag
title_and_priority(rest) ==
    LET last_part   == rest[Len(rest)]
        title_parts == SubSeq(rest, 1, Len(rest) - 1)
    IN  IF last_part = W("--high")
        THEN [title |-> join(title_parts), priority |-> W("high")]
        ELSE IF last_part = W("--low")
        THEN [title |-> join(title_parts), priority |-> W("low")]
        ELSE [title |-> join(Append(title_parts, last_part)), priority |-> W("normal")]

\* The if/elif chain of main, after tasks = load_tasks().
dispatch(av, ts) ==
    LET command == Arg(av, 1)
    IN  IF command = W("list") THEN cmd_list(ts)
        ELSE IF command = W("add") THEN
            IF Len(av) < 3 THEN R(ts, 0, <<>>, Msg(M_MissingName))
            ELSE LET tp == title_and_priority(From(av, 2))
                 IN  cmd_add(ts, tp.title, tp.priority, W("None"))
        ELSE IF command = W("add-category") THEN
            IF Len(av) < 4 THEN R(ts, 0, <<>>, Msg(M_MissingCat))
            ELSE LET tp == title_and_priority(From(av, 3))
                 IN  cmd_add(ts, tp.title, tp.priority, Arg(av, 2))
        ELSE IF command = W("done") THEN
            IF Len(av) < 3 THEN R(ts, 0, <<>>, Msg(M_MissingNum))
            ELSE cmd_done(ts, Arg(av, 2))
        ELSE IF command = W("done-category") THEN
            IF Len(av) < 3 THEN R(ts, 0, <<>>, Msg(M_MissingDCat))
            ELSE cmd_done_category(ts, join(From(av, 2)))
        ELSE IF command = W("delete") THEN
            IF Len(av) < 3 THEN R(ts, 0, <<>>, Msg(M_MissingDel))
            ELSE cmd_delete(ts, Arg(av, 2))
        ELSE IF command = W("clear") THEN cmd_clear_completed(ts)
        ELSE R(ts, 0, <<>>, MsgS(M_Unknown, command))

Outcome(exc, nload, loaded, r) ==
    [pre |-> loaded, tasks |-> r.tasks, msg |-> r.msg, loads |-> nload,
     written |-> r.written, raised |-> exc, nsave |-> r.nsave]

\* main(argv) on file f and disk d
main(av, f, d) ==
    IF Len(av) < 2 THEN Outcome(FALSE, 0, <<>>, R(<<>>, 0, <<>>, Msg(M_Usage)))
    ELSE LET l == load_tasks(f, d)
         IN  IF l.raised THEN Outcome(TRUE, 1, <<>>, R(<<>>, 0, <<>>, NoMsg))
             ELSE Outcome(FALSE, 1, l.tasks, dispatch(av, l.tasks))

-----------------------------------------------------------------------------
(* Inputs *)

prog == W("todo.py")

S_A    == W("A")
S_B    == W("B")
S_Work == W("Work")
S_work == W("work")

\* The numeral of n, 0 <= n <= 9
Numeral(n) == <<CHOOSE c \in Digits : DigitVal(c) = n>>

IndexStrs ==
    {Numeral(n) : n \in 0..(MaxTasks + 1)}
        \cup {<<"-", "1">>, <<"+", "2">>, <<" ", "1", " ">>, <<"0", "3">>,
              <<"abc">>, <<"1", "a">>, <<>>}

AddArgvs ==
    {<<prog, W("add")>>,
     <<prog, W("add"), <<" ", "A", " ">>>>,
     <<prog, W("add"), S_A, S_B, W("--high")>>,
     <<prog, W("add"), <<" ">>>>,
     <<prog, W("add"), <<>>, <<>>>>,
     <<prog, W("add"), W("--low")>>}

AddCategoryArgvs ==
    {<<prog, W("add-category")>>,
     <<prog, W("add-category"), S_Work>>,
     <<prog, W("add-category"), S_Work, S_B>>,
     <<prog, W("add-category"), S_work, S_B, W("--low")>>,
     <<prog, W("add-category"), S_Work, W("--high")>>}

DoneArgvs == {<<prog, W("done")>>} \cup {<<prog, W("done"), n>> : n \in IndexStrs}

DeleteArgvs == {<<prog, W("delete")>>} \cup {<<prog, W("delete"), n>> : n \in IndexStrs}

DoneCategoryArgvs ==
    {<<prog, W("done-category")>>,
     <<prog, W("done-category"), S_Work>>,
     <<prog, W("done-category"), S_work>>,
     <<prog, W("done-category"), W("None")>>,
     <<prog, W("done-category"), S_Work, S_B>>}

UnknownArgvs == {<<prog, W("help")>>, <<prog, W("List")>>}

\* Backing files as a user may have left them.
F_empty == FileOf("list", <<>>)

\* Written by a version without priority and category.
F_legacy ==
    FileOf("list", <<Obj(JStr(S_A), JBool(FALSE), JAbsent, JAbsent),
                     Obj(JStr(S_B), JBool(TRUE), JAbsent, JStr(S_Work))>>)

\* Edited by hand: elements that are no records, records with keys missing or
\* of other types.
F_edited ==
    FileOf("list", <<NotObj,
                     Obj(JStr(S_A), JAbsent, JStr(W("urgent")), JAbsent),
                     Obj(JAbsent, JBool(TRUE), JStr(W("high")), JStr(S_Work)),
                     Obj(JNum(W("7")), JBool(FALSE), JAbsent, JAbsent),
                     Obj(JStr(S_B), JStr(W("yes")), JAbsent, JAbsent),
                     Obj(JStr(S_B), JNum(W("1")), JAbsent, JAbsent),
                     Obj(JStr(S_B), JBool(TRUE), JNum(W("2")), JNum(W("3")))>>)

\* Edited by hand: a record with a blank title.
F_blank ==
    FileOf("list", <<Obj(JStr(<<" ">>), JBool(FALSE), JStr(W("normal")), JStr(W("None")))>>)

\* Written by this version: three tasks, the second one done.
F_three ==
    FileOf("list", <<Obj(JStr(S_A), JBool(FALSE), JStr(W("normal")), JStr(W("None"))),
                     Obj(JStr(S_B), JBool(TRUE), JStr(W("low")), JStr(S_work)),
                     Obj(JStr(S_B), JBool(FALSE), JStr(W("normal")), JStr(S_Work))>>)

InitFiles ==
    {F_absent, F_badenc, F_badjson, F_notlist, F_empty, F_legacy, F_edited, F_blank,
     F_three}

Disks == {"ok", "readonly", "full", "noaccess", "writeonly"}

-----------------------------------------------------------------------------
(* The command line: one action per command, each a whole run of main *)

Init ==
    /\ file \in InitFiles
    /\ disk \in Disks
    /\ file = F_absent => disk \in {"ok", "readonly", "full"}
    /\ op = "init"
    /\ argv = <<>>
    /\ pre = <<>>
    /\ tasks = <<>>
    /\ msg = NoMsg
    /\ loads = 0
    /\ saves = 0
    /\ written = <<>>
    /\ raised = FALSE

Run(av) ==
    \E o \in {main(av, file, disk)} :
        /\ Len(o.tasks) <= (IF Len(o.pre) > MaxTasks THEN Len(o.pre) ELSE MaxTasks)
        /\ op' = "main"
        /\ argv' = av
        /\ pre' = o.pre
        /\ tasks' = o.tasks
        /\ msg' = o.msg
        /\ loads' = o.loads
        /\ saves' = o.nsave
        /\ written' = o.written
        /\ raised' = o.raised
        /\ file' = IF o.nsave = 1 THEN save_tasks(file, disk, o.written) ELSE file
        /\ UNCHANGED disk

Commands ==
    {W("list"), W("add"), W("add-category"), W("done"), W("done-category"),
     W("delete"), W("clear")}

Usage        == \E av \in {<<prog>>} : Len(av) < 2 /\ Run(av)
List         == \E av \in {<<prog, W("list")>>} : Arg(av, 1) = W("list") /\ Run(av)
Add          == \E av \in AddArgvs : Arg(av, 1) = W("add") /\ Run(av)
AddCategory  == \E av \in AddCategoryArgvs : Arg(av, 1) = W("add-category") /\ Run(av)
Done         == \E av \in DoneArgvs : Arg(av, 1) = W("done") /\ Run(av)
DoneCategory == \E av \in DoneCategoryArgvs : Arg(av, 1) = W("done-category") /\ Run(av)
Delete       == \E av \in DeleteArgvs : Arg(av, 1) = W("delete") /\ Run(av)
Clear        == \E av \in {<<prog, W("clear")>>} : Arg(av, 1) = W("clear") /\ Run(av)
Unknown      == \E av \in UnknownArgvs : Arg(av, 1) \notin Commands /\ Run(av)

Next ==
    \/ Usage
    \/ List
    \/ Add
    \/ AddCategory
    \/ Done
    \/ DoneCategory
    \/ Delete
    \/ Clear
    \/ Unknown

Spec == Init /\ [][Next]_vars

-----------------------------------------------------------------------------
(* The storage functions on their own: load_tasks and save_tasks called on
   arbitrary backing files and arbitrary lists of well-formed tasks *)

\* The longest hand-made list in a backing file.
MaxItems == 2

SeqsUpTo(S, n) == UNION {[1..k -> S] : k \in 0..n}

ItemSamples ==
    {NotObj,
     Obj(JStr(S_A), JBool(FALSE), JStr(W("high")), JStr(S_Work)),
     Obj(JStr(S_B), JBool(TRUE), JAbsent, JAbsent),
     Obj(JStr(S_A), JAbsent, JStr(W("urgent")), JAbsent),
     Obj(JAbsent, JBool(TRUE), JStr(W("high")), JStr(S_Work)),
     Obj(JNum(W("7")), JBool(FALSE), JAbsent, JAbsent),
     Obj(JStr(S_B), JStr(W("yes")), JAbsent, JAbsent),
     Obj(JStr(S_B), JBool(TRUE), JNum(W("2")), JNum(W("3")))}

StorageFiles ==
    InitFiles \cup {FileOf("list", items) : items \in SeqsUpTo(ItemSamples, MaxItems)}

WellFormedTasks ==
    {Task(S_A, FALSE, JStr(W("normal")), JStr(W("None"))),
     Task(<<"B", " ", "A">>, TRUE, JStr(W("low")), JStr(S_work)),
     Task(S_B, FALSE, JStr(W("urgent")), JStr(S_Work))}

InitStorage ==
    /\ file \in StorageFiles
    /\ disk \in Disks
    /\ file = F_absent => disk \in {"ok", "readonly", "full"}
    /\ op = "init"
    /\ argv = <<>>
    /\ pre = <<>>
    /\ tasks = <<>>
    /\ msg = NoMsg
    /\ loads = 0
    /\ saves = 0
    /\ written = <<>>
    /\ raised = FALSE

\* tasks = load_tasks()
LoadTasks ==
    \E l \in {load_tasks(file, disk)} :
        /\ op' = "load_tasks"
        /\ tasks' = l.tasks
        /\ raised' = l.raised
        /\ loads' = 1
        /\ saves' = 0
        /\ written' = <<>>
        /\ pre' = <<>>
        /\ UNCHANGED <<file, disk, argv, msg>>

\* save_tasks(ts)
SaveTasks(ts) ==
    /\ op' = "save_tasks"
    /\ tasks' = ts
    /\ written' = ts
    /\ saves' = 1
    /\ loads' = 0
    /\ raised' = FALSE
    /\ pre' = <<>>
    /\ file' = save_tasks(file, disk, ts)
    /\ UNCHANGED <<disk, argv, msg>>

Save == \E ts \in SeqsUpTo(WellFormedTasks, MaxTasks) : Len(ts) <= MaxTasks /\ SaveTasks(ts)

NextStorage ==
    \/ LoadTasks
    \/ Save

SpecStorage == InitStorage /\ [][NextStorage]_vars

-----------------------------------------------------------------------------
(* Properties *)

\* The last operation was main with this command and did not die in load_tasks.
IsMain(cmd) == op = "main" /\ Len(argv) >= 2 /\ argv[2] = W(cmd) /\ ~raised

\* The last operation was main with this command and an argument after it.
IsMainArg(cmd) == IsMain(cmd) /\ Len(argv) >= 3

\* num_str names a position of ts: an integer k with 1 <= k <= Len(ts)
ValidIndex(ts, num_str) ==
    int(num_str).ok /\ int(num_str).num >= 1 /\ int(num_str).num <= Len(ts)

Blank(title) == \A i \in 1..Len(title) : title[i] = " "

NoBlankTitle(ts) == \A i \in 1..Len(ts) : ~Blank(ts[i].title)

IsDone(t) == t.done
IsPending(t) == ~t.done

\* The strings the index validation is documented to reject, for a list of n tasks.
RejectedSamples(n) == {Numeral(0), Numeral(n + 1), <<"-", "1">>, <<"abc">>, <<>>}

\* C1: with N >= 1 tasks, done and delete act on a task exactly when the
\* argument parses to an integer k, 1 <= k <= N, and then on the task at
\* position k; for every other argument ("0", N+1, negative, "abc", "") the
\* list stays as loaded and save_tasks is not called.
C1_IndexAccepted ==
    \A cmd \in {"done", "delete"} :
        (IsMainArg(cmd) /\ Len(pre) >= 1) =>
            LET k == int(argv[3]).num
            IN  /\ ValidIndex(pre, argv[3]) <=> saves = 1
                /\ (ValidIndex(pre, argv[3]) /\ cmd = "done") =>
                       /\ tasks[k].done
                       /\ tasks[k].title = pre[k].title
                       /\ msg = MsgS(M_MarkedDone, pre[k].title)
                /\ (ValidIndex(pre, argv[3]) /\ cmd = "delete") =>
                       /\ Len(tasks) = Len(pre) - 1
                       /\ msg = MsgS(M_Deleted, pre[k].title)
                /\ ~ValidIndex(pre, argv[3]) => (tasks = pre /\ saves = 0)
                /\ argv[3] \in RejectedSamples(Len(pre)) => (tasks = pre /\ saves = 0)

\* done with index N on a list of N >= 2 tasks, written with a sign
C1_Witness ==
    /\ IsMainArg("done")
    /\ Len(pre) >= 2
    /\ argv[3] = <<"+", "2">>
    /\ saves = 1
    /\ tasks[2].done

\* C2 as claimed: the rejections come in the documented order: an argument that
\* is no integer gives "invalid number" whatever the list, the empty list
\* included; an integer on the empty list gives "no tasks yet"; an integer
\* outside [1, N] on a non-empty list gives "must be between 1 and N".
C2_DocumentedOrder ==
    \A cmd \in {"done", "delete"} :
        IsMainArg(cmd) =>
            /\ ~int(argv[3]).ok => msg = Msg(M_InvalidNum)
            /\ (int(argv[3]).ok /\ pre = <<>>) => msg = Msg(M_NoTasksYet)
            /\ (int(argv[3]).ok /\ pre # <<>> /\ ~ValidIndex(pre, argv[3])) =>
                   msg = MsgN(M_Between, Len(pre))

\* C2 amended: on a non-empty list an argument that is no integer gives
\* "invalid number" and an integer outside [1, N] gives "must be between 1 and
\* N"; on the empty list done and delete print their own "No tasks to mark as
\* done." / "No tasks to delete." before looking at the argument, so neither
\* "invalid number" nor "no tasks yet" is ever printed there.  Nothing is
\* changed or saved in any of these cases.
C2_HandlerChecksEmptyFirst ==
    \A cmd \in {"done", "delete"} :
        IsMainArg(cmd) =>
            /\ (pre # <<>> /\ ~int(argv[3]).ok) => msg = Msg(M_InvalidNum)
            /\ (pre # <<>> /\ int(argv[3]).ok /\ ~ValidIndex(pre, argv[3])) =>
                   msg = MsgN(M_Between, Len(pre))
            /\ pre = <<>> =>
                   msg = Msg(IF cmd = "done" THEN M_NoneToDone ELSE M_NoneToDelete)
            /\ msg.text # M_NoTasksYet
            /\ ~ValidIndex(pre, argv[3]) => (tasks = pre /\ saves = 0)

\* done abc on the empty list
C2_Witness ==
    /\ IsMainArg("done")
    /\ pre = <<>>
    /\ argv[3] = <<"abc">>
    /\ msg = Msg(M_NoneToDone)

\* C3: load_tasks never raises and returns the empty list when the backing
\* file is absent, unreadable, not UTF-8, not JSON or not a list, so no run of
\* main lets an exception escape because of the backing file.
C3_LoadNeverRaises ==
    op = "main" =>
        /\ ~raised
        /\ (loads = 1 /\ saves = 0 /\
            (file.kind \in {"absent", "badenc", "badjson", "value"} \/ ReadFails(disk))) =>
               pre = <<>>

\* The elements load_tasks keeps according to C4: objects with a string title
\* and a boolean done.
C4_ClaimedKept(item) == item.dict /\ item.title.t = "str" /\ item.done.t = "bool"

\* The elements load_tasks keeps: the done key may also be missing.
C4_Kept(item) ==
    item.dict /\ item.title.t = "str" /\ item.done.t \in {"bool", "absent"}

\* The task of a kept element: absent priority is "normal", absent category
\* is "None", absent done is False, everything present passes through.
C4_Expected(item) ==
    [title    |-> item.title.s,
     done     |-> IF item.done.t = "absent" THEN FALSE ELSE item.done.b,
     priority |-> IF item.priority.t = "absent" THEN JStr(<<"normal">>) ELSE item.priority,
     category |-> IF item.category.t = "absent" THEN JStr(<<"None">>) ELSE item.category]

C4_Loaded == op = "load_tasks" /\ file.kind = "list" /\ ~ReadFails(disk)

\* C4 as claimed: from a list, load_tasks returns in file order exactly the
\* elements that are objects with a string title and a boolean done, skips
\* every element whose title or done is missing or of another type, and
\* defaults an absent priority to "normal" and an absent category to "None".
C4_SkipsMissingDone ==
    C4_Loaded =>
        LET kept == SelectSeq(file.items, C4_ClaimedKept)
        IN  tasks = [i \in 1..Len(kept) |-> C4_Expected(kept[i])]

\* C4 amended: from a list, load_tasks returns in file order exactly the
\* elements that are objects with a string title and a done that is a boolean
\* or missing (a missing done loads as False); elements with a missing or
\* non-string title or a non-boolean done are skipped; an absent priority
\* loads as "normal", an absent category as "None", present values unchanged.
C4_KeepsMissingDone ==
    C4_Loaded =>
        LET kept == SelectSeq(file.items, C4_Kept)
        IN  /\ ~raised
            /\ tasks = [i \in 1..Len(kept) |-> C4_Expected(kept[i])]

\* a loaded list holding a record without done next to a record with all keys
C4_Witness ==
    /\ C4_Loaded
    /\ Len(file.items) = 2
    /\ file.items[1].dict /\ file.items[1].done.t = "absent"
    /\ file.items[2].priority.t = "str"
    /\ Len(tasks) = 2
    /\ ~tasks[1].done

\* C5 as claimed: save_tasks(ts) followed by load_tasks() returns ts, whatever
\* the file held before.
C5_RoundTripAlways ==
    op = "save_tasks" => load_tasks(file, disk) = Loaded(FALSE, written)

\* C5 amended: save_tasks(ts) followed by load_tasks() returns ts, whatever the
\* file held before, provided neither the write nor the read fails with an I/O
\* error; a failed write is swallowed and leaves the file as it was or emptied,
\* and load_tasks then returns what that file holds (the empty list if the file is emptied or cannot be read).
C5_RoundTripWhenWritten ==
    op = "save_tasks" =>
        /\ disk = "ok" => load_tasks(file, disk) = Loaded(FALSE, written)
        /\ disk = "full" => load_tasks(file, disk) = Loaded(FALSE, <<>>)
        /\ ReadFails(disk) => load_tasks(file, disk) = Loaded(FALSE, <<>>)

\* two different tasks saved over a file that held something else
C5_Witness ==
    /\ op = "save_tasks"
    /\ disk = "ok"
    /\ Len(written) = 2
    /\ written[1].category # written[2].category
    /\ written[1].title # written[2].title
    /\ file = FileOf("list", serialized(written))

\* The title the router hands to cmd_add.
C6_AddTitle ==
    title_and_priority(From(argv, IF argv[2] = W("add") THEN 2 ELSE 3)).title

C6_AddRan ==
    \/ IsMain("add") /\ Len(argv) >= 3
    \/ IsMain("add-category") /\ Len(argv) >= 4

C7_ValidationFailed ==
    /\ op = "main" /\ Len(argv) >= 2 /\ ~raised
    /\ \/ argv[2] \in {W("add"), W("done"), W("done-category"), W("delete")} /\ Len(argv) < 3
       \/ argv[2] = W("add-category") /\ Len(argv) < 4
       \/ argv[2] \notin Commands
       \/ C6_AddRan /\ Blank(C6_AddTitle)
       \/ (IsMainArg("done") \/ IsMainArg("delete")) /\ ~ValidIndex(pre, argv[3])

\* C7 as claimed: a run of main loads at most once, saves at most once, and
\* does not save when validation failed or the handler left the list as it
\* was (list, done on a task already done, done-category without a pending
\* match, clear without a completed task).
C7_NoSaveWhenUnchanged ==
    op = "main" =>
        /\ loads <= 1
        /\ saves <= 1
        /\ C7_ValidationFailed => saves = 0
        /\ (~raised /\ tasks = pre) => saves = 0

\* C7 amended: a run of main loads at most once, saves at most once, and does
\* not save when validation failed or the handler left the list as it was
\* (list, done-category without a pending match, clear without a completed
\* task), except that done with a valid index calls save_tasks once also when
\* the task was already done.
C7_NoSaveUnlessDone ==
    op = "main" =>
        /\ loads <= 1
        /\ saves <= 1
        /\ Len(argv) < 2 <=> loads = 0
        /\ C7_ValidationFailed => (saves = 0 /\ tasks = pre)
        /\ (~raised /\ tasks = pre /\ ~(IsMainArg("done") /\ ValidIndex(pre, argv[3]))) =>
               saves = 0
        /\ (IsMainArg("done") /\ ValidIndex(pre, argv[3])) => saves = 1
        /\ IsMain("list") => saves = 0

\* done on a task that was already done
C7_Witness ==
    /\ IsMainArg("done")
    /\ ValidIndex(pre, argv[3])
    /\ pre[int(argv[3]).num].done
    /\ tasks = pre
    /\ saves = 1

\* C8: done-category sets done on exactly the tasks of that category (compared
\* case-sensitively) that were not done, reports their number, and changes no
\* other task, field or position; without such a task it reports none updated
\* and does not call save_tasks, so a second call right after a successful one
\* updates nothing and writes nothing.
C8_DoneCategoryFrame ==
    IsMainArg("done-category") =>
        LET category == join(From(argv, 2))
            hit == {i \in 1..Len(pre) : pre[i].category = JStr(category) /\ ~pre[i].done}
            again == cmd_done_category(tasks, category)
        IN  /\ Len(tasks) = Len(pre)
            /\ \A i \in 1..Len(pre) :
                   tasks[i] = IF i \in hit THEN [pre[i] EXCEPT !.done = TRUE] ELSE pre[i]
            /\ hit # {} =>
                   /\ saves = 1
                   /\ written = tasks
                   /\ msg = MsgNS(M_MarkedCat, Cardinality(hit), category)
            /\ hit = {} =>
                   /\ saves = 0
                   /\ msg \in {MsgS(M_NoPending, category), Msg(M_NoneToUpdate)}
            /\ again.tasks = tasks
            /\ again.nsave = 0
            /\ again.msg \in {MsgS(M_NoPending, category), Msg(M_NoneToUpdate)}
            \* the same command run once more, when the first one's write succeeded
            /\ disk = "ok" =>
                   /\ saves = 1 => main(argv, file, disk).pre = tasks
                   /\ main(argv, file, disk).nsave = 0

\* done-category Work updated a task and left a pending task of category work
C8_Witness ==
    /\ IsMainArg("done-category")
    /\ argv[3] = S_Work
    /\ saves = 1
    /\ msg.n >= 1
    /\ \E i \in 1..Len(tasks) : tasks[i].category = JStr(S_work) /\ ~tasks[i].done

\* C9: clear removes every done task and keeps the others in their order; a
\* second clear right after removes nothing and writes nothing.
C9_ClearIdempotent ==
    IsMain("clear") =>
        LET again == cmd_clear_completed(tasks)
        IN  /\ tasks = SelectSeq(pre, IsPending)
            /\ (\E i \in 1..Len(pre) : pre[i].done) =>
                   /\ saves = 1
                   /\ written = tasks
                   /\ msg = MsgN(M_Cleared, Len(SelectSeq(pre, IsDone)))
            /\ (\A i \in 1..Len(pre) : ~pre[i].done) => saves = 0
            /\ again.tasks = tasks
            /\ again.nsave = 0
            /\ again.msg.text \in {M_NoCompleted, M_NoneToClear}
            \* the same command run once more, when the first one's write succeeded
            /\ disk = "ok" =>
                   /\ saves = 1 => main(argv, file, disk).pre = tasks
                   /\ main(argv, file, disk).nsave = 0

\* clear removed the done task between two pending ones
C9_Witness ==
    /\ IsMain("clear")
    /\ Len(pre) = 3
    /\ pre[2].done
    /\ tasks = <<pre[1], pre[3]>>
    /\ saves = 1

\* What delete k does to the list in memory and hands to save_tasks.
C10_Shift ==
    LET k == int(argv[3]).num
    IN  /\ Len(tasks) = Len(pre) - 1
        /\ \A j \in 1..(k - 1) : tasks[j] = pre[j]
        /\ \A j \in (k + 1)..Len(pre) : tasks[j - 1] = pre[j]
        /\ msg = MsgS(M_Deleted, pre[k].title)
        /\ saves = 1
        /\ written = tasks

C10_Deleted == IsMainArg("delete") /\ ValidIndex(pre, argv[3])

\* C10 as claimed: delete k, 1 <= k <= N, removes exactly the task at position
\* k, the tasks before it stay, the tasks after it move up by one unchanged,
\* and the persisted file equals the resulting list.
C10_DeletePersisted ==
    C10_Deleted => (C10_Shift /\ file = FileOf("list", serialized(tasks)))

\* C10 amended: delete k, 1 <= k <= N, removes exactly the task at position k,
\* the tasks before it stay, the tasks after it move up by one unchanged, and
\* save_tasks is handed the resulting list; the backing file equals it unless
\* the write failed with an I/O error, which save_tasks swallows.
C10_DeleteShifts ==
    C10_Deleted =>
        /\ C10_Shift
        /\ disk \in {"ok", "writeonly"} => file = FileOf("list", serialized(tasks))

\* delete 2 on three tasks, written to the file
C10_Witness ==
    /\ C10_Deleted
    /\ Len(pre) = 3
    /\ argv[3] = Numeral(2)
    /\ tasks = <<pre[1], pre[3]>>
    /\ pre[1] # pre[3]
    /\ disk = "ok"
    /\ file = FileOf("list", serialized(tasks))

====
